---- MODULE Spec2Model ----
(***************************************************************************)
(* Model of src/error.rs of webdriver-rust: the WebDriver error            *)
(* vocabulary (ErrorStatus), the error value (WebDriverError) and its      *)
(* projections status_code, http_status, to_json_string, description,      *)
(* Display::fmt, and the conversion From<ParserError>.                     *)
(*                                                                         *)
(* Strings of the program are TLA+ strings; a character is a string of     *)
(* length one.  An enum variant is represented by its name.                *)
(***************************************************************************)
EXTENDS Integers, Sequences, FiniteSets, TLC

VARIABLES err, src, out

vars == <<err, src, out>>

(***************************************************************************)
(* Bounds of the model.                                                    *)
(***************************************************************************)
\* longest message handed to WebDriverError::new
MaxLen == 2
\* largest line / column number carried by a parse failure
MaxPos == 2

(***************************************************************************)
(* Characters messages are made of: a letter, a quote, a backslash and a   *)
(* control character.                                                      *)
(***************************************************************************)
Alphabet == {"a", "\"", "\\", "\n"}

RECURSIVE StringsUpTo(_)
StringsUpTo(n) ==
    IF n = 0 THEN {""}
    ELSE LET shorter == StringsUpTo(n - 1)
         IN  shorter \cup {s \o c : s \in shorter, c \in Alphabet}

Messages == StringsUpTo(MaxLen)

\* enum ErrorStatus with the UnknownMethod variant dropped
ErrorStatusWithoutUnknownMethod ==
    { "ElementNotSelectable", "ElementNotVisible", "InvalidArgument",
      "InvalidCookieDomain", "InvalidElementCoordinates",
      "InvalidElementState", "InvalidSelector", "InvalidSessionId",
      "JavascriptError", "MoveTargetOutOfBounds", "NoSuchAlert",
      "NoSuchElement", "NoSuchFrame", "NoSuchWindow", "ScriptTimeout",
      "SessionNotCreated", "StaleElementReference", "Timeout",
      "UnableToSetCookie", "UnexpectedAlertOpen", "UnknownError",
      "UnknownPath", "UnsupportedOperation" }

\* enum ErrorStatus with a variant added that no match has an arm for
ErrorStatusWithNoSuchCookie ==
    { "ElementNotSelectable", "ElementNotVisible", "InvalidArgument",
      "InvalidCookieDomain", "InvalidElementCoordinates",
      "InvalidElementState", "InvalidSelector", "InvalidSessionId",
      "JavascriptError", "MoveTargetOutOfBounds", "NoSuchAlert",
      "NoSuchCookie",
      "NoSuchElement", "NoSuchFrame", "NoSuchWindow", "ScriptTimeout",
      "SessionNotCreated", "StaleElementReference", "Timeout",
      "UnableToSetCookie", "UnexpectedAlertOpen", "UnknownError",
      "UnknownPath", "UnknownMethod", "UnsupportedOperation" }

(***************************************************************************)
(* enum ErrorStatus                                                        *)
(***************************************************************************)
ErrorStatus ==
    { "ElementNotSelectable", "ElementNotVisible", "InvalidArgument",
      "InvalidCookieDomain", "InvalidElementCoordinates",
      "InvalidElementState", "InvalidSelector", "InvalidSessionId",
      "JavascriptError", "MoveTargetOutOfBounds", "NoSuchAlert",
      "NoSuchElement", "NoSuchFrame", "NoSuchWindow", "ScriptTimeout",
      "SessionNotCreated", "StaleElementReference", "Timeout",
      "UnableToSetCookie", "UnexpectedAlertOpen", "UnknownError",
      "UnknownPath", "UnknownMethod", "UnsupportedOperation" }

(***************************************************************************)
(* hyper::status::StatusCode values used by http_status                    *)
(***************************************************************************)
BadRequest == 400
NotFound == 404
MethodNotAllowed == 405
RequestTimeout == 408
InternalServerError == 500

(***************************************************************************)
(* WebDriverError::new                                                     *)
(***************************************************************************)
new(status, message) == [status |-> status, message |-> message]

(***************************************************************************)
(* The arms of the match in status_code, one per variant.                  *)
(***************************************************************************)
StatusCodeArms ==
    [ ElementNotSelectable      |-> "element not selectable",
      ElementNotVisible         |-> "element not visible",
      InvalidArgument           |-> "invalid argument",
      InvalidCookieDomain       |-> "invalid cookie domain",
      InvalidElementCoordinates |-> "invalid element coordinates",
      InvalidElementState       |-> "invalid element state",
      InvalidSelector           |-> "invalid selector",
      InvalidSessionId          |-> "invalid session id",
      JavascriptError           |-> "javascript error",
      MoveTargetOutOfBounds     |-> "move target out of bounds",
      NoSuchAlert               |-> "no such alert",
      NoSuchElement             |-> "no such element",
      NoSuchFrame               |-> "no such frame",
      NoSuchWindow              |-> "no such window",
      ScriptTimeout             |-> "script timeout",
      SessionNotCreated         |-> "session not created",
      StaleElementReference     |-> "stale element reference",
      Timeout                   |-> "timeout",
      UnableToSetCookie         |-> "unable to set cookie",
      UnexpectedAlertOpen       |-> "unexpected alert open",
      UnknownError              |-> "unknown error",
      UnknownPath               |-> "unknown command",
      UnknownMethod             |-> "unknown command",
      UnsupportedOperation      |-> "unsupported operation" ]

\* status_code with the identifier cased as in the variant's name
status_code_SessionID(self) ==
    IF self.status = "InvalidSessionId" THEN "invalid session Id"
    ELSE StatusCodeArms[self.status]

\* status_code with a token of its own for UnknownMethod
status_code_UnknownMethod(self) ==
    IF self.status = "UnknownMethod" THEN "unknown method"
    ELSE StatusCodeArms[self.status]

\* status_code with the NoSuchWindow literal pasted into the NoSuchFrame arm
status_code_NoSuchFrame(self) ==
    IF self.status = "NoSuchFrame" THEN "no such window"
    ELSE StatusCodeArms[self.status]

\* WebDriverError::status_code
status_code(self) == StatusCodeArms[self.status]

(***************************************************************************)
(* The arms of the match in http_status, one per variant.                  *)
(***************************************************************************)
HttpStatusArms ==
    [ ElementNotSelectable      |-> BadRequest,
      ElementNotVisible         |-> BadRequest,
      InvalidArgument           |-> BadRequest,
      InvalidCookieDomain       |-> BadRequest,
      InvalidElementCoordinates |-> BadRequest,
      InvalidElementState       |-> BadRequest,
      InvalidSelector           |-> BadRequest,
      InvalidSessionId          |-> NotFound,
      JavascriptError           |-> InternalServerError,
      MoveTargetOutOfBounds     |-> InternalServerError,
      NoSuchAlert               |-> BadRequest,
      NoSuchElement             |-> NotFound,
      NoSuchFrame               |-> BadRequest,
      NoSuchWindow              |-> BadRequest,
      ScriptTimeout             |-> RequestTimeout,
      SessionNotCreated         |-> InternalServerError,
      StaleElementReference     |-> BadRequest,
      Timeout                   |-> RequestTimeout,
      UnableToSetCookie         |-> InternalServerError,
      UnexpectedAlertOpen       |-> InternalServerError,
      UnknownError              |-> InternalServerError,
      UnknownPath               |-> NotFound,
      UnknownMethod             |-> MethodNotAllowed,
      UnsupportedOperation      |-> InternalServerError ]

\* http_status with the Timeout arm answering 500
http_status_Timeout(self) ==
    IF self.status = "Timeout" THEN InternalServerError
    ELSE HttpStatusArms[self.status]

\* WebDriverError::http_status
http_status(self) == HttpStatusArms[self.status]

\* description returning the free-text message, as Display does
description_Message(self) == self.message

\* impl Error for WebDriverError: description
description(self) == status_code(self)

\* impl fmt::Display for WebDriverError: fmt writes the message
fmt(self) == self.message

(***************************************************************************)
(* Characters of a string, and the byte order of the lowercase letters     *)
(* (all that the keys of the wire body contain).                           *)
(***************************************************************************)
CharAt(s, i) == SubSeq(s, i, i)

LowerLetters == "abcdefghijklmnopqrstuvwxyz"

Rank(c) == CHOOSE i \in 1..Len(LowerLetters) : CharAt(LowerLetters, i) = c

\* Ord for str: lexicographic comparison, a proper prefix comes first
RECURSIVE StrLess(_, _)
StrLess(a, b) ==
    IF b = "" THEN FALSE
    ELSE IF a = "" THEN TRUE
    ELSE IF CharAt(a, 1) = CharAt(b, 1)
         THEN StrLess(SubSeq(a, 2, Len(a)), SubSeq(b, 2, Len(b)))
         ELSE Rank(CharAt(a, 1)) < Rank(CharAt(b, 1))

(***************************************************************************)
(* BTreeMap<String, Json>: a function from its keys to their values.       *)
(* insert replaces the value of a key that is already present; iteration   *)
(* is in the order of the keys.                                            *)
(***************************************************************************)
BTreeMapNew == [k \in {} |-> ""]

insert(map, key, value) ==
    [k \in DOMAIN map \cup {key} |-> IF k = key THEN value ELSE map[k]]

RECURSIVE KeysInOrder(_)
KeysInOrder(keys) ==
    IF keys = {} THEN << >>
    ELSE LET first == CHOOSE k \in keys : \A o \in keys \ {k} : StrLess(k, o)
         IN  <<first>> \o KeysInOrder(keys \ {first})

\* to_json leaving the message member out when the message is empty
to_json_SkipEmpty(self) ==
    LET data0 == BTreeMapNew
        data1 == insert(data0, "status", status_code(self))
        data2 == IF self.message = "" THEN data1
                 ELSE insert(data1, "message", self.message)
    IN  data2

\* impl ToJson for WebDriverError: to_json
to_json(self) ==
    LET data0 == BTreeMapNew
        data1 == insert(data0, "status", status_code(self))
        data2 == insert(data1, "message", self.message)
    IN  data2

(***************************************************************************)
(* Json::to_string of rustc_serialize: the compact encoding.  escape_str   *)
(* writes a string between quotes, with an escape for the quote, the       *)
(* backslash and the control characters (those a TLA+ string can hold are  *)
(* \t \n \f \r; the \b and \u00XX arms are outside the alphabet).          *)
(***************************************************************************)
EscapeChar(c) ==
    CASE c = "\"" -> "\\\""
      [] c = "\\" -> "\\\\"
      [] c = "\t" -> "\\t"
      [] c = "\n" -> "\\n"
      [] c = "\f" -> "\\f"
      [] c = "\r" -> "\\r"
      [] OTHER    -> c

RECURSIVE EscapeFrom(_, _)
EscapeFrom(v, i) ==
    IF i > Len(v) THEN ""
    ELSE EscapeChar(CharAt(v, i)) \o EscapeFrom(v, i + 1)

escape_str(v) == "\"" \o EscapeFrom(v, 1) \o "\""

RECURSIVE EncodeMembers(_, _, _)
EncodeMembers(map, keys, i) ==
    IF i > Len(keys) THEN ""
    ELSE (IF i > 1 THEN "," ELSE "")
         \o escape_str(keys[i]) \o ":" \o escape_str(map[keys[i]])
         \o EncodeMembers(map, keys, i + 1)

JsonToString(map) ==
    "{" \o EncodeMembers(map, KeysInOrder(DOMAIN map), 1) \o "}"

\* WebDriverError::to_json_string
to_json_string(self) == JsonToString(to_json(self))

(***************************************************************************)
(* rustc_serialize::json::ParserError, the document parse failure: the     *)
(* SyntaxError variant carries an ErrorCode, a line and a column.          *)
(***************************************************************************)
ErrorCode == {"InvalidSyntax", "EOFWhileParsingObject", "TrailingCharacters"}

ParserError ==
    [variant : {"SyntaxError"}, code : ErrorCode,
     line : 1..MaxPos, col : 1..MaxPos]

\* format!("{:?}", err): the variant's name and its fields between
\* parentheses, separated by ", "
DebugFmt(e) ==
    e.variant \o "(" \o e.code \o ", " \o ToString(e.line) \o ", "
              \o ToString(e.col) \o ")"

\* from classifying the parse failure as an invalid argument
from_InvalidArgument(e) ==
    LET msg == DebugFmt(e)
    IN  new("InvalidArgument", msg)

\* impl From<ParserError> for WebDriverError: from
from(e) ==
    LET msg == DebugFmt(e)
    IN  new("UnknownError", msg)

(***************************************************************************)
(* State: err is the error value at hand, src records how it was built     *)
(* (by new, or by from out of a parse failure), out is what the last call  *)
(* on err returned (op names the call; str or code holds the value).       *)
(***************************************************************************)
NoFailure == [variant |-> "None", code |-> "None", line |-> 0, col |-> 0]

NoOut == [op |-> "none", str |-> "", code |-> 0]

StrOut(op, s) == [op |-> op, str |-> s, code |-> 0]

CodeOut(op, c) == [op |-> op, str |-> "", code |-> c]

Init ==
    /\ \E status \in ErrorStatus, message \in Messages :
          err = new(status, message)
    /\ src = [via |-> "new", failure |-> NoFailure]
    /\ out = NoOut

\* a component builds an error from a known cause
New(status, message) ==
    /\ err' = new(status, message)
    /\ src' = [via |-> "new", failure |-> NoFailure]
    /\ out' = NoOut

\* a parse failure is converted into an error
FromParserError(e) ==
    /\ err' = from(e)
    /\ src' = [via |-> "from", failure |-> e]
    /\ out' = NoOut

CallStatusCode ==
    /\ out' = StrOut("status_code", status_code(err))
    /\ UNCHANGED <<err, src>>

CallHttpStatus ==
    /\ out' = CodeOut("http_status", http_status(err))
    /\ UNCHANGED <<err, src>>

\* to_json_string taking the message out of the error while serializing
CallToJsonStringTakingMessage ==
    /\ out' = StrOut("to_json_string", to_json_string(err))
    /\ err' = new(err.status, "")
    /\ UNCHANGED src

CallToJsonString ==
    /\ out' = StrOut("to_json_string", to_json_string(err))
    /\ UNCHANGED <<err, src>>

CallDescription ==
    /\ out' = StrOut("description", description(err))
    /\ UNCHANGED <<err, src>>

CallFmt ==
    /\ out' = StrOut("fmt", fmt(err))
    /\ UNCHANGED <<err, src>>

\* impl Error for WebDriverError: cause is always None
CallCause ==
    /\ out' = StrOut("cause", "")
    /\ UNCHANGED <<err, src>>

Next ==
    \/ \E status \in ErrorStatus, message \in Messages : New(status, message)
    \/ \E e \in ParserError : FromParserError(e)
    \/ CallStatusCode
    \/ CallHttpStatus
    \/ CallToJsonString
    \/ CallDescription
    \/ CallFmt
    \/ CallCause

Spec == Init /\ [][Next]_vars

TypeOK ==
    /\ err.status \in ErrorStatus
    /\ src.via \in {"new", "from"}
    /\ out.op \in {"none", "status_code", "http_status", "to_json_string",
                   "description", "fmt", "cause"}

(***************************************************************************)
(* The reader of the wire body: a JSON decoder for an object whose members *)
(* are strings.  A raw control character inside a string and an unknown    *)
(* escape are errors.  The result lists the members in the order read.     *)
(***************************************************************************)
DecodeFail == [ok |-> FALSE, val |-> "", next |-> 0]

ControlChars == {"\t", "\n", "\f", "\r"}

Unescape(e) ==
    CASE e = "\"" -> "\""
      [] e = "\\" -> "\\"
      [] e = "/"  -> "/"
      [] e = "t"  -> "\t"
      [] e = "n"  -> "\n"
      [] e = "f"  -> "\f"
      [] e = "r"  -> "\r"
      [] OTHER    -> ""

RECURSIVE DecodeStringBody(_, _, _)
DecodeStringBody(s, i, acc) ==
    IF i > Len(s) THEN DecodeFail
    ELSE LET c == CharAt(s, i)
         IN  IF c = "\"" THEN [ok |-> TRUE, val |-> acc, next |-> i + 1]
             ELSE IF c = "\\"
                  THEN IF i + 1 > Len(s) \/ Unescape(CharAt(s, i + 1)) = ""
                       THEN DecodeFail
                       ELSE DecodeStringBody(s, i + 2,
                                             acc \o Unescape(CharAt(s, i + 1)))
             ELSE IF c \in ControlChars THEN DecodeFail
             ELSE DecodeStringBody(s, i + 1, acc \o c)

DecodeString(s, i) ==
    IF i > Len(s) \/ CharAt(s, i) # "\"" THEN DecodeFail
    ELSE DecodeStringBody(s, i + 1, "")

NotAnObject == [ok |-> FALSE, members |-> << >>]

RECURSIVE DecodeMembers(_, _, _)
DecodeMembers(s, i, members) ==
    LET key == DecodeString(s, i)
    IN  IF ~key.ok \/ key.next > Len(s) \/ CharAt(s, key.next) # ":"
        THEN NotAnObject
        ELSE LET value == DecodeString(s, key.next + 1)
                 read  == Append(members, <<key.val, value.val>>)
             IN  IF ~value.ok \/ value.next > Len(s) THEN NotAnObject
                 ELSE IF CharAt(s, value.next) = ","
                      THEN DecodeMembers(s, value.next + 1, read)
                 ELSE IF CharAt(s, value.next) = "}" /\ value.next = Len(s)
                      THEN [ok |-> TRUE, members |-> read]
                 ELSE NotAnObject

DecodeObject(s) ==
    IF Len(s) < 2 \/ CharAt(s, 1) # "{" THEN NotAnObject
    ELSE IF CharAt(s, 2) = "}"
         THEN IF Len(s) = 2 THEN [ok |-> TRUE, members |-> << >>]
              ELSE NotAnObject
    ELSE DecodeMembers(s, 2, << >>)

\* the value of the member named key (the object has exactly one such member)
Member(obj, key) ==
    LET i == CHOOSE j \in 1..Len(obj.members) : obj.members[j][1] = key
    IN  obj.members[i][2]

MemberKeys(obj) == {obj.members[j][1] : j \in 1..Len(obj.members)}

(***************************************************************************)
(* The transport status table of the specification (section 6).            *)
(***************************************************************************)
Table400 ==
    { "ElementNotSelectable", "ElementNotVisible", "InvalidArgument",
      "InvalidCookieDomain", "InvalidElementCoordinates",
      "InvalidElementState", "InvalidSelector", "NoSuchAlert", "NoSuchFrame",
      "NoSuchWindow", "StaleElementReference" }

Table404 == {"InvalidSessionId", "NoSuchElement", "UnknownPath"}

Table500 ==
    { "JavascriptError", "MoveTargetOutOfBounds", "SessionNotCreated",
      "UnableToSetCookie", "UnexpectedAlertOpen", "UnknownError",
      "UnsupportedOperation" }

Table408 == {"ScriptTimeout", "Timeout"}

Table405 == {"UnknownMethod"}

TableStatus(kind) ==
    CASE kind \in Table400 -> 400
      [] kind \in Table404 -> 404
      [] kind \in Table500 -> 500
      [] kind \in Table408 -> 408
      [] kind \in Table405 -> 405
      [] OTHER             -> 0

\* C1: for every error kind, http_status returns exactly the transport
\* status of the section 6 table (400, 404, 500, 408 or 405 as listed), and
\* no kind maps to a status outside {400, 404, 405, 408, 500}.
C1_HttpStatusIsTable ==
    /\ http_status(err) = TableStatus(err.status)
    /\ http_status(err) \in {400, 404, 405, 408, 500}
    /\ out.op = "http_status" => out.code = TableStatus(err.status)

C1_Witness ==
    /\ out.op = "http_status"
    /\ err.status = "ScriptTimeout"
    /\ out.code = 408

(***************************************************************************)
(* The words of a variant's name, lowercased and separated by one space.   *)
(***************************************************************************)
UpperLetters == "ABCDEFGHIJKLMNOPQRSTUVWXYZ"

IsUpper(c) == \E i \in 1..Len(UpperLetters) : CharAt(UpperLetters, i) = c

ToLower(c) ==
    IF IsUpper(c)
    THEN CharAt(LowerLetters,
                CHOOSE i \in 1..Len(UpperLetters) : CharAt(UpperLetters, i) = c)
    ELSE c

RECURSIVE WordsLowerFrom(_, _)
WordsLowerFrom(name, i) ==
    IF i > Len(name) THEN ""
    ELSE (IF IsUpper(CharAt(name, i)) /\ i > 1 THEN " " ELSE "")
         \o ToLower(CharAt(name, i)) \o WordsLowerFrom(name, i + 1)

Token(kind) ==
    IF kind \in {"UnknownPath", "UnknownMethod"} THEN "unknown command"
    ELSE WordsLowerFrom(kind, 1)

WellFormedToken(t) ==
    /\ Len(t) > 0
    /\ \A i \in 1..Len(t) : ~IsUpper(CharAt(t, i))
    /\ CharAt(t, 1) # " "
    /\ CharAt(t, Len(t)) # " "
    /\ \A i \in 1..(Len(t) - 1) : ~(CharAt(t, i) = " " /\ CharAt(t, i + 1) = " ")

\* C2: for every error kind, status_code returns the variant's name split
\* into its words and lowercased, except "unknown command" for UnknownPath
\* and UnknownMethod; no token has an uppercase letter, a leading or
\* trailing space or two consecutive spaces.
C2_StatusCodeIsToken ==
    /\ status_code(err) = Token(err.status)
    /\ WellFormedToken(status_code(err))
    /\ out.op = "status_code" => out.str = Token(err.status)

C2_Witness ==
    /\ out.op = "status_code"
    /\ err.status = "InvalidSessionId"
    /\ out.str = "invalid session id"

\* C3: an UnknownPath error and an UnknownMethod error have the same
\* status_code, "unknown command", but different http_status (404 and 405),
\* whatever their messages are.
C3_UnknownCommandPair ==
    /\ err.status = "UnknownPath" =>
          /\ status_code(err) = "unknown command"
          /\ http_status(err) = 404
          /\ \A m \in Messages :
                /\ status_code(new("UnknownMethod", m)) = status_code(err)
                /\ http_status(new("UnknownMethod", m)) # http_status(err)
    /\ err.status = "UnknownMethod" =>
          /\ status_code(err) = "unknown command"
          /\ http_status(err) = 405
          /\ \A m \in Messages :
                /\ status_code(new("UnknownPath", m)) = status_code(err)
                /\ http_status(new("UnknownPath", m)) # http_status(err)
    /\ (out.op = "status_code" /\ err.status \in {"UnknownPath", "UnknownMethod"})
          => out.str = "unknown command"
    /\ (out.op = "http_status" /\ err.status = "UnknownPath") => out.code = 404
    /\ (out.op = "http_status" /\ err.status = "UnknownMethod") => out.code = 405

C3_Witness ==
    /\ out.op = "http_status"
    /\ err.status = "UnknownMethod"
    /\ err.message # ""
    /\ out.code = 405

\* C4: decoding the text the serializer returns for an error yields an
\* object with exactly the two keys "status" and "message", whose status
\* is status_code() of the error and whose message is the error's message
\* unchanged; an empty message is present as the empty string.
C4_WireBodyRoundTrip ==
    out.op = "to_json_string" =>
        LET obj == DecodeObject(out.str)
        IN  /\ obj.ok
            /\ Len(obj.members) = 2
            /\ MemberKeys(obj) = {"status", "message"}
            /\ Member(obj, "status") = status_code(err)
            /\ Member(obj, "message") = err.message

C4_Witness ==
    /\ out.op = "to_json_string"
    /\ src.via = "new"
    /\ err.message = "\"\\"
    /\ DecodeObject(out.str).ok

\* C5: converting a parse failure yields an error of kind UnknownError
\* (status_code "unknown error", http_status 500) whose message is non-empty
\* and is the debug representation of that parse failure.
C5_ParseFailureIsUnknownError ==
    src.via = "from" =>
        /\ err.status = "UnknownError"
        /\ status_code(err) = "unknown error"
        /\ http_status(err) = 500
        /\ Len(err.message) > 0
        /\ err.message = DebugFmt(src.failure)

C5_Witness ==
    /\ src.via = "from"
    /\ src.failure.code = "TrailingCharacters"
    /\ out.op = "status_code"
    /\ out.str = "unknown error"

\* C6: the diagnostic description of an error equals its status_code() and
\* does not depend on the message.
C6_DescriptionIsStatusCode ==
    /\ description(err) = status_code(err)
    /\ \A m \in Messages : description(new(err.status, m)) = description(err)
    /\ out.op = "description" => out.str = status_code(err)

C6_Witness ==
    /\ out.op = "description"
    /\ err.message # ""
    /\ out.str = "no such element"

\* C7: the status-string table and the transport-status table are total
\* over the enumeration, with an entry for every error kind and none for
\* anything else, and status_code, http_status and serialization return a
\* value for every kind and message.
C7_TablesTotal ==
    /\ DOMAIN StatusCodeArms = ErrorStatus
    /\ DOMAIN HttpStatusArms = ErrorStatus
    /\ err.status \in DOMAIN StatusCodeArms \cap DOMAIN HttpStatusArms
    /\ out.op = "status_code" => Len(out.str) > 0
    /\ out.op = "http_status" => out.code \in 100..599
    /\ out.op = "to_json_string" => Len(out.str) > 0

C7_Witness ==
    /\ out.op = "to_json_string"
    /\ err.status = "UnsupportedOperation"
    /\ err.message = ""

\* the variants named in the data model list of the specification
DataModelVariants ==
    { "ElementNotSelectable", "ElementNotVisible", "InvalidArgument",
      "InvalidCookieDomain", "InvalidElementCoordinates",
      "InvalidElementState", "InvalidSelector", "InvalidSessionId",
      "JavascriptError", "MoveTargetOutOfBounds", "NoSuchAlert",
      "NoSuchElement", "NoSuchFrame", "NoSuchWindow", "ScriptTimeout",
      "SessionNotCreated", "StaleElementReference", "Timeout",
      "UnableToSetCookie", "UnexpectedAlertOpen", "UnknownError",
      "UnknownPath", "UnknownMethod", "UnsupportedOperation" }

\* C8 as stated: the enumeration of error kinds has exactly 23 variants,
\* the ones named in the data model list.
C8_TwentyThreeVariants ==
    /\ err.status \in ErrorStatus
    /\ ErrorStatus = DataModelVariants
    /\ Cardinality(ErrorStatus) = 23

\* C8 amended: the enumeration of error kinds has exactly 24 variants, the
\* ones named in the data model list.
C8_TwentyFourVariants ==
    /\ err.status \in ErrorStatus
    /\ ErrorStatus = DataModelVariants
    /\ Cardinality(ErrorStatus) = 24

C8_Witness ==
    /\ err.status = "UnknownMethod"
    /\ out.op = "fmt"

\* C9: status_code, http_status and serialization are pure: a call leaves
\* the error's kind and message unchanged, what it returns is determined by
\* the error, and status_code and http_status return the same for every
\* message of the same kind.
C9_ProjectionsPure ==
    [][out'.op \in {"status_code", "http_status", "to_json_string"} =>
          /\ err' = err
          /\ out'.op = "status_code" =>
                \A m \in Messages : out'.str = status_code(new(err.status, m))
          /\ out'.op = "http_status" =>
                \A m \in Messages : out'.code = http_status(new(err.status, m))
          /\ out'.op = "to_json_string" =>
                out'.str = to_json_string(new(err.status, err.message))]_vars

C9_Witness ==
    /\ out.op = "to_json_string"
    /\ err.status = "Timeout"
    /\ err.message = "a"

\* C10: UnknownPath and UnknownMethod are the only two distinct error kinds
\* with the same status string, and two errors with equal status_code and
\* equal http_status have the same kind.
C10_PairIdentifiesKind ==
    \A kind \in ErrorStatus, m \in Messages :
        LET other == new(kind, m)
        IN  /\ (status_code(other) = status_code(err) /\ kind # err.status)
                  => {kind, err.status} = {"UnknownPath", "UnknownMethod"}
            /\ (/\ status_code(other) = status_code(err)
                /\ http_status(other) = http_status(err))
                  => kind = err.status

C10_Witness ==
    /\ err.status = "UnknownPath"
    /\ out.op = "status_code"
    /\ out.str = "unknown command"

====
